---- MODULE Spec2Model ----
(***************************************************************************)
(* Model of src/types.rs of stripper-interface: the symbol kind `Type`,    *)
(* the scope node `TypeStruct` (an owned chain through                     *)
(* `parent: Option<Box<TypeStruct>>`), its PartialEq, Clone, Debug and     *)
(* Display implementations, and the recursive helper `sub_call`.           *)
(*                                                                         *)
(* A Rust `String` is a sequence of one-character strings, so that         *)
(* formatting really concatenates and a rendered path can be taken apart   *)
(* again.  `Option<T>` is a sequence of length 0 (None) or 1 (Some).       *)
(***************************************************************************)
EXTENDS Naturals, Sequences, FiniteSets, TLC

VARIABLES
    tok,    \* the raw keyword last given to Type::from
    ty,     \* the Type that Type::from returned for tok
    t,      \* the TypeStruct the caller currently holds (by value)
    out,    \* the Formatter's buffer after the last fmt call on t
    mode,   \* which fmt produced out: "none", "display" or "debug";
            \* "walk" while a Display call is still running
    stack,  \* the frames of sub_call that are live, innermost last
    calls,  \* every invocation of sub_call so far in this fmt call
    heap,   \* the TypeStruct cells in memory, by address
    orig,   \* address of the original TypeStruct, 0 before it exists
    copy,   \* address of its clone, 0 while there is none
    snap,   \* the value of the original when it was last cloned
    muts,   \* number of writes to the clone since it was made
    cmp     \* <<eq, ne>> of the last comparison of the two, <<>> if stale

valVars == <<tok, ty, t, out, mode>>
walkVars == <<stack, calls>>
heapVars == <<heap, orig, copy, snap, muts, cmp>>
vars == <<tok, ty, t, out, mode, stack, calls, heap, orig, copy, snap, muts, cmp>>

(***************************************************************************)
(* Bounds of the model.                                                    *)
(***************************************************************************)
MaxDepth == 3       \* longest parent chain (number of ancestors) built
HeapDepth == 2      \* the same, for the chains kept in the heap
MaxMuts == 2        \* writes to a clone before it is dropped or remade

(***************************************************************************)
(* enum Type                                                               *)
(***************************************************************************)
Type ==
    {"Struct", "Mod", "Enum", "Fn", "Const", "Static", "Type", "Variant",
     "Impl", "Use", "Macro", "Trait", "Unknown"}

\* Type::from with the `_` arm giving Unknown.
FromUnknown(s) ==
    CASE s = <<"s","t","r","u","c","t">> -> "Struct"
      [] s = <<"m","o","d">> -> "Mod"
      [] s = <<"e","n","u","m">> -> "Enum"
      [] s = <<"f","n">> -> "Fn"
      [] s = <<"c","o","n","s","t">> -> "Const"
      [] s = <<"s","t","a","t","i","c">> -> "Static"
      [] s = <<"t","y","p","e">> -> "Type"
      [] s = <<"i","m","p","l">> -> "Impl"
      [] s = <<"u","s","e">> -> "Use"
      [] s = <<"t","r","a","i","t">> -> "Trait"
      [] s = <<"m","a","c","r","o">> -> "Macro"
      [] s = <<"m","a","c","r","o","_","r","u","l","e","s">> -> "Macro"
      [] s = <<"m","a","c","r","o","_","r","u","l","e","s","!">> -> "Macro"
      [] OTHER -> "Unknown"

\* Type::from: exact match on the whole string, `_` arm last.
From(s) ==
    CASE s = <<"s","t","r","u","c","t">> -> "Struct"
      [] s = <<"m","o","d">> -> "Mod"
      [] s = <<"e","n","u","m">> -> "Enum"
      [] s = <<"f","n">> -> "Fn"
      [] s = <<"c","o","n","s","t">> -> "Const"
      [] s = <<"s","t","a","t","i","c">> -> "Static"
      [] s = <<"t","y","p","e">> -> "Type"
      [] s = <<"i","m","p","l">> -> "Impl"
      [] s = <<"u","s","e">> -> "Use"
      [] s = <<"t","r","a","i","t">> -> "Trait"
      [] s = <<"m","a","c","r","o">> -> "Macro"
      [] s = <<"m","a","c","r","o","_","r","u","l","e","s">> -> "Macro"
      [] s = <<"m","a","c","r","o","_","r","u","l","e","s","!">> -> "Macro"
      [] OTHER -> "Variant"

\* Display for Type writing "module" for Mod.
TypeDisplayModule(k) ==
    CASE k = "Struct" -> <<"s","t","r","u","c","t">>
      [] k = "Mod" -> <<"m","o","d","u","l","e">>
      [] k = "Enum" -> <<"e","n","u","m">>
      [] k = "Fn" -> <<"f","n">>
      [] k = "Const" -> <<"c","o","n","s","t">>
      [] k = "Static" -> <<"s","t","a","t","i","c">>
      [] k = "Type" -> <<"t","y","p","e">>
      [] k = "Variant" -> <<"v","a","r","i","a","n","t">>
      [] k = "Impl" -> <<"i","m","p","l">>
      [] k = "Use" -> <<"u","s","e">>
      [] k = "Trait" -> <<"t","r","a","i","t">>
      [] k = "Macro" -> <<"m","a","c","r","o">>
      [] OTHER -> <<"?">>

\* impl Display for Type: the text written for each variant, `_` arm last.
TypeDisplay(k) ==
    CASE k = "Struct" -> <<"s","t","r","u","c","t">>
      [] k = "Mod" -> <<"m","o","d">>
      [] k = "Enum" -> <<"e","n","u","m">>
      [] k = "Fn" -> <<"f","n">>
      [] k = "Const" -> <<"c","o","n","s","t">>
      [] k = "Static" -> <<"s","t","a","t","i","c">>
      [] k = "Type" -> <<"t","y","p","e">>
      [] k = "Variant" -> <<"v","a","r","i","a","n","t">>
      [] k = "Impl" -> <<"i","m","p","l">>
      [] k = "Use" -> <<"u","s","e">>
      [] k = "Trait" -> <<"t","r","a","i","t">>
      [] k = "Macro" -> <<"m","a","c","r","o">>
      [] OTHER -> <<"?">>

(***************************************************************************)
(* struct TypeStruct                                                       *)
(***************************************************************************)
\* TypeStruct::new
new(k, name) == [ty |-> k, parent |-> <<>>, name |-> name, args |-> <<>>]

\* TypeStruct::empty
empty == [ty |-> "Unknown", parent |-> <<>>, name |-> <<>>, args |-> <<>>]

\* join that forgets the separator.
RECURSIVE joinNoSep(_, _)
joinNoSep(args, sep) ==
    IF Len(args) = 0 THEN <<>>
    ELSE args[1] \o joinNoSep(Tail(args), sep)

\* [String]::join(sep): the first element, then sep before every further one.
RECURSIVE join(_, _)
join(args, sep) ==
    IF Len(args) = 0 THEN <<>>
    ELSE IF Len(args) = 1 THEN args[1]
    ELSE args[1] \o sep \o join(Tail(args), sep)

\* show with the format "{} {}{}" in both branches.
showNoSep(n, is_parent) ==
    TypeDisplay(n.ty) \o <<" ">> \o n.name \o join(n.args, <<" ">>)

\* show with the formats "{} {} {}§" and "{} {} {}".
showSpaceArgs(n, is_parent) ==
    IF is_parent
    THEN TypeDisplay(n.ty) \o <<" ">> \o n.name \o <<" ">> \o join(n.args, <<" ">>) \o <<"§">>
    ELSE TypeDisplay(n.ty) \o <<" ">> \o n.name \o <<" ">> \o join(n.args, <<" ">>)

\* fn show: "{} {}{}§" for an ancestor, "{} {}{}" for the node asked for.
\* The Formatter writes into a String, so write! returns Ok.
show(n, is_parent) ==
    IF is_parent
    THEN TypeDisplay(n.ty) \o <<" ">> \o n.name \o join(n.args, <<" ">>) \o <<"§">>
    ELSE TypeDisplay(n.ty) \o <<" ">> \o n.name \o join(n.args, <<" ">>)

\* sub_call that shows a macro ancestor when it has no parent.
RECURSIVE sub_callRootMacro(_, _)
sub_callRootMacro(n, is_parent) ==
    IF n.ty = "Macro" /\ is_parent = TRUE
    THEN IF Len(n.parent) = 1
         THEN sub_callRootMacro(n.parent[1], TRUE)
         ELSE show(n, is_parent)
    ELSE IF Len(n.parent) = 1
         THEN sub_callRootMacro(n.parent[1], TRUE) \o show(n, is_parent)
         ELSE show(n, is_parent)

\* fn sub_call: what the call appends to the Formatter.
RECURSIVE sub_call(_, _)
sub_call(n, is_parent) ==
    IF n.ty = "Macro" /\ is_parent = TRUE
    THEN IF Len(n.parent) = 1
         THEN sub_call(n.parent[1], TRUE)
         ELSE <<>>
    ELSE IF Len(n.parent) = 1
         THEN sub_call(n.parent[1], TRUE) \o show(n, is_parent)
         ELSE show(n, is_parent)

\* impl Display for TypeStruct
TypeStructDisplay(n) == sub_call(n, FALSE)

\* Debug that formats the parent with "{}" instead of "{:?}".
TypeStructDebugByDisplay(n) ==
    IF Len(n.parent) = 1
    THEN TypeStructDisplay(n.parent[1]) \o <<"§">> \o TypeDisplay(n.ty) \o <<" ">>
             \o n.name \o join(n.args, <<" ">>)
    ELSE TypeDisplay(n.ty) \o <<" ">> \o n.name \o join(n.args, <<" ">>)

\* impl Debug for TypeStruct: "{:?}§{} {}{}" with a parent, "{} {}{}" without.
RECURSIVE TypeStructDebug(_)
TypeStructDebug(n) ==
    IF Len(n.parent) = 1
    THEN TypeStructDebug(n.parent[1]) \o <<"§">> \o TypeDisplay(n.ty) \o <<" ">>
             \o n.name \o join(n.args, <<" ">>)
    ELSE TypeDisplay(n.ty) \o <<" ">> \o n.name \o join(n.args, <<" ">>)

\* Number of ancestors of n.
RECURSIVE Depth(_)
Depth(n) == IF Len(n.parent) = 1 THEN 1 + Depth(n.parent[1]) ELSE 0

(***************************************************************************)
(* Inputs: the declaration headers a caller hands to the module.           *)
(***************************************************************************)
Decl(k, name, args) == [tok |-> k, name |-> name, args |-> args]

Decls ==
    { Decl(<<"s","t","r","u","c","t">>, <<"P","o","i","n","t">>, <<>>),
      Decl(<<"s","t","r","u","c","t">>, <<"P","o","i","n","t">>, << <<"<","T",">">> >>),
      Decl(<<"m","o","d">>, <<"o","u","t","e","r">>, <<>>),
      Decl(<<"e","n","u","m">>, <<"E">>, <<>>),
      Decl(<<"f","n">>, <<"r","u","n">>, <<>>),
      Decl(<<"f","n">>, <<"r","u","n">>, << <<"(","x",")">>, <<"-",">">>, <<"u","8">> >>),
      Decl(<<"f","n">>, <<>>, <<>>),
      Decl(<<"c","o","n","s","t">>, <<"C">>, <<>>),
      Decl(<<"t","y","p","e">>, <<"T">>, << <<"=">>, <<"u","8">> >>),
      Decl(<<"i","m","p","l">>, <<"F","o","o">>, <<>>),
      Decl(<<"i","m","p","l">>, <<>>, << <<"<","T",">">>, <<"F","o","o">> >>),
      Decl(<<"u","s","e">>, <<"s","t","d">>, <<>>),
      Decl(<<"t","r","a","i","t">>, <<"T","r">>, <<>>),
      Decl(<<"m","a","c","r","o">>, <<"g","e","n">>, <<>>),
      Decl(<<"m","a","c","r","o","_","r","u","l","e","s">>, <<"g","e","n">>, <<>>),
      Decl(<<"m","a","c","r","o","_","r","u","l","e","s","!">>, <<"g","e","n">>, <<>>),
      Decl(<<"v","a","r","i","a","n","t">>, <<"V">>, <<>>),
      Decl(<<"V">>, <<>>, << <<"(","u","8",")">> >>),
      Decl(<<"F","n">>, <<"r","u","n">>, <<>>),
      Decl(<<"f","n"," ">>, <<"r","u","n">>, <<>>),
      Decl(<<"?">>, <<>>, <<>>),
      Decl(<<>>, <<>>, <<>>) }

Names == {<<>>, <<"r","u","n">>}

\* Kinds of declaration that open a block, so that others nest in them.
ScopeKinds == {"Mod", "Impl", "Macro"}

(***************************************************************************)
(* The caller's session on one TypeStruct value.                           *)
(***************************************************************************)
Init ==
    /\ tok = <<>>
    /\ ty = From(<<>>)
    /\ t = empty
    /\ out = <<>>
    /\ mode = "none"
    /\ stack = <<>>
    /\ calls = <<>>
    /\ heap = <<>>
    /\ orig = 0
    /\ copy = 0
    /\ snap = <<>>
    /\ muts = 0
    /\ cmp = <<>>

\* TypeStruct::new with a Type the caller names itself.
New(k, name) ==
    /\ stack = <<>>
    /\ t' = new(k, name)
    /\ out' = <<>>
    /\ mode' = "none"
    /\ calls' = <<>>
    /\ UNCHANGED <<tok, ty, stack, heapVars>>

\* A top-level declaration: classify the keyword, construct the node, set
\* its pub field args.
NewDecl(d) ==
    /\ tok' = d.tok
    /\ ty' = From(d.tok)
    /\ t' = [new(From(d.tok), d.name) EXCEPT !.args = d.args]
    /\ out' = <<>>
    /\ mode' = "none"
    /\ UNCHANGED <<walkVars, heapVars>>

\* A declaration inside the block of t: the new node owns t as its parent.
Nest(d) ==
    /\ t.ty \in ScopeKinds
    /\ Depth(t) < MaxDepth
    /\ tok' = d.tok
    /\ ty' = From(d.tok)
    /\ t' = [new(From(d.tok), d.name) EXCEPT !.args = d.args, !.parent = <<t>>]
    /\ out' = <<>>
    /\ mode' = "none"
    /\ UNCHANGED <<walkVars, heapVars>>

\* The placeholder node.
Empty ==
    /\ t' = empty
    /\ out' = <<>>
    /\ mode' = "none"
    /\ UNCHANGED <<tok, ty, walkVars, heapVars>>

\* Classify the keyword that Display writes for the kind of t.
Keyword ==
    /\ tok' = TypeDisplay(t.ty)
    /\ ty' = From(TypeDisplay(t.ty))
    /\ UNCHANGED <<t, out, mode, walkVars, heapVars>>

\* format!("{}", t)
Fmt ==
    /\ out' = TypeStructDisplay(t)
    /\ mode' = "display"
    /\ UNCHANGED <<tok, ty, t, walkVars, heapVars>>

\* format!("{:?}", t)
Dbg ==
    /\ out' = TypeStructDebug(t)
    /\ mode' = "debug"
    /\ UNCHANGED <<tok, ty, t, walkVars, heapVars>>

Next ==
    \/ \E k \in Type, name \in Names : New(k, name)
    \/ \E d \in Decls : NewDecl(d)
    \/ \E d \in Decls : Nest(d)
    \/ Empty
    \/ Keyword
    \/ Fmt
    \/ Dbg

Spec == Init /\ [][Next]_vars

TypeOK ==
    /\ ty \in Type
    /\ t.ty \in Type
    /\ mode \in {"none", "display", "debug", "walk"}
    /\ Depth(t) <= MaxDepth

(***************************************************************************)
(* Display::fmt one call of sub_call at a time: stack holds the frames,    *)
(* each with the node it was called on, its is_parent argument and where   *)
(* it stands ("enter": at the top of the body; "ret": its inner call has   *)
(* returned).                                                              *)
(***************************************************************************)
WalkKinds == {"Fn", "Macro", "Mod"}

WalkName == <<"x">>

Frame(n, is_parent) == [n |-> n, is_parent |-> is_parent, pc |-> "enter"]

\* The recursive call with is_parent = false.
ParentFrameAsLeaf(p) == Frame(p, FALSE)

\* The frame of the recursive call sub_call(f, p.borrow(), true).
ParentFrame(p) == Frame(p, TRUE)

Top == stack[Len(stack)]

Pop == SubSeq(stack, 1, Len(stack) - 1)

\* The state of the fmt call once the top frame has returned.
Returned == IF Len(stack) = 1 THEN "display" ELSE "walk"

\* A node nested in t; any kind of node may be the parent.
Inside(k, name) ==
    /\ stack = <<>>
    /\ Depth(t) < MaxDepth
    /\ t' = [new(k, name) EXCEPT !.parent = <<t>>]
    /\ out' = <<>>
    /\ mode' = "none"
    /\ calls' = <<>>
    /\ UNCHANGED <<tok, ty, stack, heapVars>>

\* Display::fmt is entered: sub_call(f, self, false).
Call ==
    /\ stack = <<>>
    /\ stack' = <<Frame(t, FALSE)>>
    /\ calls' = <<Frame(t, FALSE)>>
    /\ out' = <<>>
    /\ mode' = "walk"
    /\ UNCHANGED <<tok, ty, t, heapVars>>

\* Either branch of sub_call with `Some(ref p)`: the call on the parent.
Descend ==
    /\ stack # <<>>
    /\ Top.pc = "enter"
    /\ Len(Top.n.parent) = 1
    /\ stack' = Append([stack EXCEPT ![Len(stack)].pc = "ret"],
                       ParentFrame(Top.n.parent[1]))
    /\ calls' = Append(calls, ParentFrame(Top.n.parent[1]))
    /\ UNCHANGED <<tok, ty, t, out, mode, heapVars>>

\* A macro ancestor without parent: `_ => Ok(())`, nothing is written.
SkipMacro ==
    /\ stack # <<>>
    /\ Top.pc = "enter"
    /\ Top.n.ty = "Macro" /\ Top.is_parent = TRUE
    /\ Len(Top.n.parent) = 0
    /\ stack' = Pop
    /\ mode' = Returned
    /\ UNCHANGED <<tok, ty, t, out, calls, heapVars>>

\* Any other node without parent: `_ => show(f, t, is_parent)`.
Show ==
    /\ stack # <<>>
    /\ Top.pc = "enter"
    /\ ~(Top.n.ty = "Macro" /\ Top.is_parent = TRUE)
    /\ Len(Top.n.parent) = 0
    /\ out' = out \o show(Top.n, Top.is_parent)
    /\ stack' = Pop
    /\ mode' = Returned
    /\ UNCHANGED <<tok, ty, t, calls, heapVars>>

\* The inner call has returned: a macro ancestor hands its result on, any
\* other node goes on to show(f, t, is_parent).
Return ==
    /\ stack # <<>>
    /\ Top.pc = "ret"
    /\ out' = IF Top.n.ty = "Macro" /\ Top.is_parent = TRUE
              THEN out
              ELSE out \o show(Top.n, Top.is_parent)
    /\ stack' = Pop
    /\ mode' = Returned
    /\ UNCHANGED <<tok, ty, t, calls, heapVars>>

WalkStep == Descend \/ SkipMacro \/ Show \/ Return

NextWalk ==
    \/ \E k \in WalkKinds : New(k, WalkName)
    \/ \E k \in WalkKinds : Inside(k, WalkName)
    \/ Call
    \/ Descend
    \/ SkipMacro
    \/ Show
    \/ Return

SpecWalk == Init /\ [][NextWalk]_vars

\* The call runs on the caller's thread without suspension points: a frame
\* that can take its next step takes it.
FairWalk == SpecWalk /\ WF_vars(WalkStep)
(***************************************************************************)
(* PartialEq                                                               *)
(***************************************************************************)
\* eq that leaves the parents out.
eqNoParent(a, b) ==
    /\ a.ty = b.ty
    /\ a.name = b.name
    /\ a.args = b.args

\* TypeStruct::eq; the parents are compared as Option<Box<TypeStruct>>:
\* Some with Some by the boxed values, otherwise equal only if both None.
RECURSIVE eq(_, _)
eq(a, b) ==
    /\ a.ty = b.ty
    /\ a.name = b.name
    /\ a.args = b.args
    /\ IF Len(a.parent) = 1 /\ Len(b.parent) = 1
       THEN eq(a.parent[1], b.parent[1])
       ELSE Len(a.parent) = Len(b.parent)

\* TypeStruct::ne
ne(a, b) == ~eq(a, b)

(***************************************************************************)
(* TypeStruct values in memory.  A cell is one TypeStruct; its parent      *)
(* field is <<>> or <<address of the boxed parent>>.                       *)
(***************************************************************************)
\* Box::new: the lowest address not in use.
Alloc(h) == CHOOSE a \in 1..(Cardinality(DOMAIN h) + 1) : a \notin DOMAIN h

\* The TypeStruct at address a, parents followed.
RECURSIVE Value(_, _)
Value(h, a) ==
    [ty |-> h[a].ty,
     parent |-> IF Len(h[a].parent) = 1 THEN <<Value(h, h[a].parent[1])>> ELSE <<>>,
     name |-> h[a].name,
     args |-> h[a].args]

\* The addresses of the TypeStruct at a and of all its ancestors.
RECURSIVE Reach(_, _)
Reach(h, a) ==
    IF a = 0 THEN {}
    ELSE {a} \cup (IF Len(h[a].parent) = 1 THEN Reach(h, h[a].parent[1]) ELSE {})

\* The addresses of the TypeStruct at a and of its ancestors, a first.
RECURSIVE ChainAddrs(_, _)
ChainAddrs(h, a) ==
    IF a = 0 THEN <<>>
    ELSE <<a>> \o (IF Len(h[a].parent) = 1 THEN ChainAddrs(h, h[a].parent[1]) ELSE <<>>)

\* Drop: the cells that neither TypeStruct owns any more are released.  An
\* address means nothing but which cell it is, so the cells that stay are
\* numbered in the order the two chains meet them; o and c are the roots.
Settle(h, o, c) ==
    LET mine == ChainAddrs(h, o)
        rest == SelectSeq(ChainAddrs(h, c), LAMBDA a : a \notin Reach(h, o))
        order == mine \o rest
        at(a) == CHOOSE i \in 1..Len(order) : order[i] = a
    IN  [h |-> [i \in 1..Len(order) |->
                  [h[order[i]] EXCEPT !.parent =
                      IF Len(h[order[i]].parent) = 1
                      THEN <<at(h[order[i]].parent[1])>>
                      ELSE <<>>]],
         orig |-> IF o = 0 THEN 0 ELSE at(o),
         copy |-> IF c = 0 THEN 0 ELSE at(c)]

\* clone that copies the parent link instead of the parent.
cloneShallow(h, a) ==
    LET r == Alloc(h)
    IN  [h |-> h @@ (r :> h[a]), at |-> <<r>>]

\* TypeStruct::clone of the cell at a: the parent is cloned first and boxed,
\* then the new TypeStruct is stored; at is where it is.
RECURSIVE clone(_, _)
clone(h, a) ==
    LET inner == IF Len(h[a].parent) = 1
                 THEN clone(h, h[a].parent[1])
                 ELSE [h |-> h, at |-> <<>>]
        r == Alloc(inner.h)
    IN  [h |-> inner.h @@ (r :> [ty |-> h[a].ty,
                                 parent |-> inner.at,
                                 name |-> h[a].name,
                                 args |-> h[a].args]),
         at |-> <<r>>]

\* TypeStruct::clone_from: the fields of the cell at a are overwritten from
\* the cell at src; the parent is a fresh clone of the source's parent.
clone_from(h, a, src) ==
    LET inner == IF Len(h[src].parent) = 1
                 THEN clone(h, h[src].parent[1])
                 ELSE [h |-> h, at |-> <<>>]
    IN  [inner.h EXCEPT ![a] = [ty |-> h[src].ty,
                                parent |-> inner.at,
                                name |-> h[src].name,
                                args |-> h[src].args]]

HeapKinds == {"Fn", "Macro"}

HeapNames == {<<"a">>, <<"b">>}

HeapArgs == {<<>>, << <<"x">>, <<"y">> >>, << <<"y">>, <<"x">> >>}

HeapDepthOf(a) == Cardinality(Reach(heap, a)) - 1

\* The memory after an operation that left the cells h with roots o and c.
Install(h, o, c) ==
    LET s == Settle(h, o, c)
    IN  /\ heap' = s.h
        /\ orig' = s.orig
        /\ copy' = s.copy

\* let orig = TypeStruct::new(k, name)
HNew(k, name) ==
    /\ orig = 0
    /\ LET r == Alloc(heap)
       IN  Install(heap @@ (r :> new(k, name)), r, copy)
    /\ UNCHANGED <<valVars, walkVars, snap, muts, cmp>>

\* let mut x = TypeStruct::new(k, name); x.parent = Some(Box::new(orig))
HNest(k, name) ==
    /\ orig # 0
    /\ copy = 0
    /\ HeapDepthOf(orig) < HeapDepth
    /\ LET r == Alloc(heap)
       IN  Install(heap @@ (r :> [new(k, name) EXCEPT !.parent = <<orig>>]), r, copy)
    /\ UNCHANGED <<valVars, walkVars, snap, muts, cmp>>

\* let copy = orig.clone()
HClone ==
    /\ orig # 0
    /\ copy = 0
    /\ LET c == clone(heap, orig)
       IN  Install(c.h, orig, c.at[1])
    /\ snap' = <<Value(heap, orig)>>
    /\ muts' = 0
    /\ cmp' = <<>>
    /\ UNCHANGED <<valVars, walkVars>>

\* copy.clone_from(&orig)
HCloneFrom ==
    /\ copy # 0
    /\ muts > 0
    /\ Install(clone_from(heap, copy, orig), orig, copy)
    /\ snap' = <<Value(heap, orig)>>
    /\ muts' = 0
    /\ cmp' = <<>>
    /\ UNCHANGED <<valVars, walkVars>>

\* drop(copy)
HDrop ==
    /\ copy # 0
    /\ Install(heap, orig, 0)
    /\ snap' = <<>>
    /\ muts' = 0
    /\ cmp' = <<>>
    /\ UNCHANGED <<valVars, walkVars>>

\* A write through the clone to the pub field ty of the clone or of one of
\* its ancestors.
SetTy(a, k) ==
    /\ muts < MaxMuts
    /\ a \in Reach(heap, copy)
    /\ heap[a].ty # k
    /\ Install([heap EXCEPT ![a].ty = k], orig, copy)
    /\ muts' = muts + 1
    /\ cmp' = <<>>
    /\ UNCHANGED <<valVars, walkVars, snap>>

\* The same for the pub field name.
SetName(a, name) ==
    /\ muts < MaxMuts
    /\ a \in Reach(heap, copy)
    /\ heap[a].name # name
    /\ Install([heap EXCEPT ![a].name = name], orig, copy)
    /\ muts' = muts + 1
    /\ cmp' = <<>>
    /\ UNCHANGED <<valVars, walkVars, snap>>

\* The same for the pub field args.
SetArgs(a, args) ==
    /\ muts < MaxMuts
    /\ a \in Reach(heap, copy)
    /\ heap[a].args # args
    /\ Install([heap EXCEPT ![a].args = args], orig, copy)
    /\ muts' = muts + 1
    /\ cmp' = <<>>
    /\ UNCHANGED <<valVars, walkVars, snap>>

\* x.parent = None on the clone or one of its ancestors.
CutParent(a) ==
    /\ muts < MaxMuts
    /\ a \in Reach(heap, copy)
    /\ Len(heap[a].parent) = 1
    /\ Install([heap EXCEPT ![a].parent = <<>>], orig, copy)
    /\ muts' = muts + 1
    /\ cmp' = <<>>
    /\ UNCHANGED <<valVars, walkVars, snap>>

\* x.parent = Some(Box::new(TypeStruct::new(k, name))) in the same places.
PutParent(a, k, name) ==
    /\ muts < MaxMuts
    /\ a \in Reach(heap, copy)
    /\ LET r == Alloc(heap)
       IN  Install([heap @@ (r :> new(k, name)) EXCEPT ![a].parent = <<r>>], orig, copy)
    /\ muts' = muts + 1
    /\ cmp' = <<>>
    /\ UNCHANGED <<valVars, walkVars, snap>>

\* orig == copy and orig != copy
Compare ==
    /\ copy # 0
    /\ cmp = <<>>
    /\ cmp' = <<eq(Value(heap, orig), Value(heap, copy)),
                ne(Value(heap, orig), Value(heap, copy))>>
    /\ UNCHANGED <<valVars, walkVars, heap, orig, copy, snap, muts>>

NextHeap ==
    \/ \E k \in HeapKinds : HNew(k, <<"a">>)
    \/ \E k \in HeapKinds : HNest(k, <<"a">>)
    \/ HClone
    \/ HCloneFrom
    \/ HDrop
    \/ \E a \in DOMAIN heap, k \in HeapKinds : SetTy(a, k)
    \/ \E a \in DOMAIN heap, name \in HeapNames : SetName(a, name)
    \/ \E a \in DOMAIN heap, args \in HeapArgs : SetArgs(a, args)
    \/ \E a \in DOMAIN heap : CutParent(a)
    \/ \E a \in DOMAIN heap : PutParent(a, "Macro", <<"b">>)
    \/ Compare

SpecHeap == Init /\ [][NextHeap]_vars

HeapOK ==
    /\ orig \in DOMAIN heap \cup {0}
    /\ copy \in DOMAIN heap \cup {0}
    /\ DOMAIN heap = Reach(heap, orig) \cup Reach(heap, copy)
    /\ \A a \in DOMAIN heap : \A p \in DOMAIN heap[a].parent : heap[a].parent[p] \in DOMAIN heap
    /\ muts \in 0..MaxMuts

(***************************************************************************)
(* Vocabulary of the properties.                                           *)
(***************************************************************************)
SEP == "§"

\* Occurrences of character ch in string s.
RECURSIVE Count(_, _)
Count(s, ch) ==
    IF Len(s) = 0 THEN 0
    ELSE (IF s[Len(s)] = ch THEN 1 ELSE 0) + Count(SubSeq(s, 1, Len(s) - 1), ch)

\* The nodes of the chain of n, outermost ancestor first, n last.
RECURSIVE Chain(_)
Chain(n) == IF Len(n.parent) = 1 THEN Append(Chain(n.parent[1]), n) ELSE <<n>>

\* The arguments with one space between neighbours, built from the right.
RECURSIVE Spaced(_)
Spaced(args) ==
    IF Len(args) = 0 THEN <<>>
    ELSE IF Len(args) = 1 THEN args[1]
    ELSE Spaced(SubSeq(args, 1, Len(args) - 1)) \o <<" ">> \o args[Len(args)]

\* The segment of one node: keyword, one space, name, arguments.
Seg(n) == TypeDisplay(n.ty) \o <<" ">> \o n.name \o Spaced(n.args)

\* The segments of a sequence of nodes, each but the last followed by SEP.
RECURSIVE Path(_)
Path(ns) ==
    IF Len(ns) = 0 THEN <<>>
    ELSE IF Len(ns) = 1 THEN Seg(ns[1])
    ELSE Seg(ns[1]) \o <<SEP>> \o Path(Tail(ns))

\* n with every strict ancestor of kind Macro cut out of the parent chain.
RECURSIVE StripMacros(_)
StripMacros(p) ==
    IF Len(p) = 0 THEN <<>>
    ELSE IF p[1].ty = "Macro" THEN StripMacros(p[1].parent)
    ELSE << [p[1] EXCEPT !.parent = StripMacros(p[1].parent)] >>

Elided(n) == [n EXCEPT !.parent = StripMacros(n.parent)]

HasMacroAncestor(n) == \E i \in 1..Depth(n) : Chain(n)[i].ty = "Macro"

NonMacroAncestors(n) == Cardinality({i \in 1..Depth(n) : Chain(n)[i].ty # "Macro"})

Node(k, name, args, parent) == [ty |-> k, parent |-> parent, name |-> name, args |-> args]

ModOuter == Node("Mod", <<"o","u","t","e","r">>, <<>>, <<>>)
MacroGen(parent) == Node("Macro", <<"g","e","n">>, <<>>, parent)
ImplFoo(parent) == Node("Impl", <<"F","o","o">>, <<>>, parent)
FnRun(parent) == Node("Fn", <<"r","u","n">>, <<>>, parent)

\* C1: macro elision.  Display of a node equals Display of the node with
\* every strict ancestor of kind Macro removed from its chain, whatever the
\* depth and wherever the macro ancestors stand (consecutive ones, an
\* outermost one without parent); the rendered path has one separator per
\* ancestor that is not a macro; the two examples render as documented.
C1_MacroElision ==
    mode = "display" =>
        /\ out = TypeStructDisplay(Elided(t))
        /\ out = Path(Chain(Elided(t)))
        /\ Count(out, SEP) = NonMacroAncestors(t)
        /\ t = FnRun(<<MacroGen(<<ModOuter>>)>>) =>
               out = <<"m","o","d"," ","o","u","t","e","r",SEP,"f","n"," ","r","u","n">>
        /\ t = FnRun(<<ImplFoo(<<MacroGen(<<ModOuter>>)>>)>>) =>
               out = <<"m","o","d"," ","o","u","t","e","r",SEP,
                       "i","m","p","l"," ","F","o","o",SEP,"f","n"," ","r","u","n">>

C1_Witness ==
    /\ mode = "display"
    /\ t = FnRun(<<ImplFoo(<<MacroGen(<<MacroGen(<<>>)>>)>>)>>)
    /\ out = <<"i","m","p","l"," ","F","o","o",SEP,"f","n"," ","r","u","n">>

\* C2: ancestor ordering and separator.  For a node of any kind whose parent
\* is not a macro, Display(n) is Display(parent), one separator, then the
\* node's own base-case form; so the path never ends in a separator, and
\* fn run inside impl Foo renders "impl Foo§fn run".
C2_ParentThenLeaf ==
    (mode = "display" /\ Len(t.parent) = 1 /\ t.parent[1].ty # "Macro") =>
        /\ out = TypeStructDisplay(t.parent[1]) \o <<SEP>> \o Seg(t)
        /\ out[Len(out)] # SEP
        /\ t = FnRun(<<ImplFoo(<<>>)>>) =>
               out = <<"i","m","p","l"," ","F","o","o",SEP,"f","n"," ","r","u","n">>

C2_Witness ==
    /\ mode = "display"
    /\ t.ty = "Macro"
    /\ Depth(t) = 2
    /\ t.parent[1].ty = "Impl"
    /\ out = TypeStructDisplay(t.parent[1]) \o <<SEP>> \o Seg(t)

\* C3 as stated: a parentless node with arguments renders keyword, space,
\* name, then a space before the first argument, then the arguments.
C3_LeadingSpace ==
    (mode = "display" /\ Len(t.parent) = 0 /\ Len(t.args) > 0) =>
        out = TypeDisplay(t.ty) \o <<" ">> \o t.name \o <<" ">> \o Spaced(t.args)

\* C3 amended: a parentless node with arguments renders keyword, space, name
\* and then the first argument at once: the character after the name is the
\* first character of the first argument, and what follows the name is the
\* arguments with single spaces only between neighbours.
C3_NoLeadingSpace ==
    (mode = "display" /\ Len(t.parent) = 0 /\ Len(t.args) > 0) =>
        LET kw == Len(TypeDisplay(t.ty))
            nm == Len(t.name)
        IN  /\ SubSeq(out, 1, kw) = TypeDisplay(t.ty)
            /\ out[kw + 1] = " "
            /\ SubSeq(out, kw + 2, kw + 1 + nm) = t.name
            /\ out[kw + 2 + nm] = t.args[1][1]
            /\ SubSeq(out, kw + 2 + nm, Len(out)) = Spaced(t.args)

C3_Witness ==
    /\ mode = "display"
    /\ t = Node("Fn", <<"r","u","n">>, << <<"(","x",")">>, <<"-",">">>, <<"u","8">> >>, <<>>)
    /\ out = <<"f","n"," ","r","u","n","(","x",")"," ","-",">"," ","u","8">>

\* C4: base-case format.  A parentless node of any kind, name and arguments
\* renders exactly keyword, one space, name, arguments joined by single
\* spaces; "fn run", "struct Point<T>" and "? " are the documented cases.
C4_BaseCase ==
    (mode = "display" /\ Len(t.parent) = 0) =>
        /\ out = Seg(t)
        /\ t = new("Fn", <<"r","u","n">>) => out = <<"f","n"," ","r","u","n">>
        /\ t = Node("Struct", <<"P","o","i","n","t">>, << <<"<","T",">">> >>, <<>>) =>
               out = <<"s","t","r","u","c","t"," ","P","o","i","n","t","<","T",">">>
        /\ t = empty => out = <<"?"," ">>

C4_Witness ==
    /\ mode = "display"
    /\ t = empty
    /\ out = <<"?"," ">>

\* C5: keyword inverse.  Whenever the token classified is the keyword that
\* Display writes for a kind other than Unknown, Type::from gives that kind
\* back.
C5_KeywordInverse ==
    (t.ty # "Unknown" /\ tok = TypeDisplay(t.ty)) => ty = t.ty

C5_Witness ==
    /\ t = new("Static", <<"r","u","n">>)
    /\ tok = <<"s","t","a","t","i","c">>
    /\ ty = "Static"

\* The keyword table of the documentation.
KeywordTable ==
    { << <<"s","t","r","u","c","t">>, "Struct" >>,
      << <<"m","o","d">>, "Mod" >>,
      << <<"e","n","u","m">>, "Enum" >>,
      << <<"f","n">>, "Fn" >>,
      << <<"c","o","n","s","t">>, "Const" >>,
      << <<"s","t","a","t","i","c">>, "Static" >>,
      << <<"t","y","p","e">>, "Type" >>,
      << <<"i","m","p","l">>, "Impl" >>,
      << <<"u","s","e">>, "Use" >>,
      << <<"t","r","a","i","t">>, "Trait" >>,
      << <<"m","a","c","r","o">>, "Macro" >>,
      << <<"m","a","c","r","o","_","r","u","l","e","s">>, "Macro" >>,
      << <<"m","a","c","r","o","_","r","u","l","e","s","!">>, "Macro" >> }

\* C6: classification totality.  Type::from answers with one kind for every
\* token: the table's kind for a token of the table, Variant for any other
\* (the empty string and "?" too), and so never Unknown.
C6_ClassifyTotal ==
    /\ ty \in Type \ {"Unknown"}
    /\ \A p \in KeywordTable : tok = p[1] => ty = p[2]
    /\ (\A p \in KeywordTable : tok # p[1]) => ty = "Variant"

C6_Witness ==
    /\ tok = <<"?">>
    /\ ty = "Variant"
    /\ t.ty = "Unknown"

\* C10: Debug does not elide.  The Debug text is the segment of every node
\* of the chain, macros included, outermost first and separated by SEP: one
\* segment per node; it equals the Display text exactly when no strict
\* ancestor is a macro.
C10_DebugKeepsMacros ==
    mode = "debug" =>
        /\ out = Path(Chain(t))
        /\ Count(out, SEP) = Depth(t)
        /\ (out = TypeStructDisplay(t)) <=> ~HasMacroAncestor(t)

C10_Witness ==
    /\ mode = "debug"
    /\ t = FnRun(<<MacroGen(<<ModOuter>>)>>)
    /\ out = <<"m","o","d"," ","o","u","t","e","r",SEP,
               "m","a","c","r","o"," ","g","e","n",SEP,"f","n"," ","r","u","n">>
    /\ out # TypeStructDisplay(t)
\* The invocations a walk of n makes: n itself with is_parent = FALSE, then
\* every ancestor, innermost first, with is_parent = TRUE.
Visits(n) ==
    [i \in 1..(Depth(n) + 1) |->
        [n |-> Chain(n)[Depth(n) + 2 - i], is_parent |-> (i > 1), pc |-> "enter"]]

\* C9: rendering terminates.  A Display call that has started returns, and
\* when it has, sub_call was invoked once for every node of the chain
\* (depth + 1 times): first on the node with is_parent = FALSE, then on each
\* ancestor in turn with is_parent = TRUE, an outermost macro included; the
\* text written is the Display text.
C9_RenderTerminates ==
    /\ (mode = "walk") ~> (mode = "display")
    /\ [](Len(calls) <= Depth(t) + 1)
    /\ [](mode = "display" =>
            /\ stack = <<>>
            /\ Len(calls) = Depth(t) + 1
            /\ calls = Visits(t)
            /\ out = TypeStructDisplay(t))

C9_Witness ==
    /\ mode = "display"
    /\ Depth(t) = MaxDepth
    /\ Chain(t)[1].ty = "Macro"
    /\ Len(calls) = MaxDepth + 1
    /\ calls[Len(calls)] = [n |-> new("Macro", WalkName), is_parent |-> TRUE, pc |-> "enter"]
OrigValue == Value(heap, orig)
CopyValue == Value(heap, copy)

\* C7: clone independence.  A fresh clone equals the original and has a
\* chain of the same length; the two share no cell at any depth; and after
\* any writes to the clone or its ancestors (kind, name, arguments, parent
\* link) the original and all its ancestors are what they were when cloned,
\* and it renders the same string.
C7_CloneIndependent ==
    copy # 0 =>
        /\ Reach(heap, orig) \cap Reach(heap, copy) = {}
        /\ OrigValue = snap[1]
        /\ TypeStructDisplay(OrigValue) = TypeStructDisplay(snap[1])
        /\ muts = 0 =>
               /\ eq(OrigValue, CopyValue)
               /\ Depth(CopyValue) = Depth(OrigValue)

C7_Witness ==
    /\ copy # 0
    /\ muts = MaxMuts
    /\ Depth(OrigValue) = HeapDepth
    /\ Depth(CopyValue) = HeapDepth
    /\ CopyValue.parent[1].name = <<"b">>
    /\ CopyValue.parent[1].parent[1].ty # OrigValue.parent[1].parent[1].ty
    /\ OrigValue = snap[1]

\* Chains of the same length whose nodes agree, position by position, in
\* kind, name and arguments (same number, same order).
SameChains(a, b) ==
    /\ Len(Chain(a)) = Len(Chain(b))
    /\ \A i \in 1..Len(Chain(a)) :
          /\ Chain(a)[i].ty = Chain(b)[i].ty
          /\ Chain(a)[i].name = Chain(b)[i].name
          /\ Len(Chain(a)[i].args) = Len(Chain(b)[i].args)
          /\ \A j \in 1..Len(Chain(a)[i].args) :
                Chain(a)[i].args[j] = Chain(b)[i].args[j]

\* C8: structural equality.  eq is true exactly for chains of the same
\* length that agree node by node in kind, name and arguments in order (so
\* chains of different length, or differing in one ancestor at any depth,
\* are unequal), and ne is the negation of eq.
C8_StructuralEq ==
    cmp # <<>> =>
        /\ cmp[1] = SameChains(OrigValue, CopyValue)
        /\ cmp[1] = (OrigValue = CopyValue)
        /\ cmp[2] = ~cmp[1]

C8_Witness ==
    /\ cmp = <<FALSE, TRUE>>
    /\ Depth(OrigValue) = HeapDepth
    /\ Depth(CopyValue) = HeapDepth
    /\ [OrigValue EXCEPT !.parent = <<>>] = [CopyValue EXCEPT !.parent = <<>>]
    /\ OrigValue.parent[1].ty = "Macro"
    /\ OrigValue.parent[1].name # CopyValue.parent[1].name
    /\ TypeStructDisplay(OrigValue) = TypeStructDisplay(CopyValue)
====
